---- MODULE Spec2Model ----
(***************************************************************************)
(* Model of pg_util.Listen (src/listen.go): one Listen call, the receiver  *)
(* and dispatch goroutines of every subscription it spawns, the debounce   *)
(* timers, the reconnect supervisor, and the environment (the caller's     *)
(* context, the database server and its NOTIFY traffic).                   *)
(*                                                                         *)
(* Atomicity.  One action is one goroutine's code from one blocking point  *)
(* (a select, WaitForNotification, a connect, a callback that is running)  *)
(* to the next.  A channel operation on an unbuffered channel is a joint   *)
(* step of the two goroutines.  A goroutine blocked in a select is resumed *)
(* by the first case that becomes ready: closing Done() resumes, in that   *)
(* step, every goroutine blocked in a select on it, and a goroutine that   *)
(* returns without another effect is then finished.  A select entered when *)
(* Done() is closed finds no partner waiting on its other cases: it is     *)
(* left at once, in the step that reached it, and no handoff takes place   *)
(* once the context is done.  A context derived with context.WithCancel is *)
(* done as soon as its parent is done.                                     *)
(***************************************************************************)
EXTENDS Integers, Sequences, FiniteSets

\* ------------------------------------------------------------------ bounds
\* Connection failures the server inflicts; one more subscription than that.
MaxConnLoss == 1
\* Notifications the server delivers to the listener's connections.
MaxNotify == 2
\* Connect or subscribe attempts of the supervisor that fail for a reason
\* other than cancellation.
MaxFails == 1

\* BuildInsert calls the callers make in all.
MaxInserts == 2

Pairs == 1..(MaxConnLoss + 1)
\* Goroutines that call BuildInsert.
Callers == {"c1", "c2"}
\* The zero value of InsertOpts, with the value the fields of Data hold.
NoOpts == [Table |-> "", Prefix |-> "", Suffix |-> "", Data |-> << >>, val |-> 0]
Payloads == {"a", "b"}
\* opts.DebounceInterval: zero (disabled) or one positive duration.
Intervals == {0, 1}
\* opts.Channel
Channel == "test"
\* The caller's OnMsg handler: it returns an error for the payloads in
\* Rejected and nil for the others.
Rejected == {"b"}
OnMsg(p) == IF p \in Rejected THEN "rejected" ELSE "nil"

VARIABLES
    interval,   \* opts.DebounceInterval
    cancelled,  \* opts.Context is done
    lpc,        \* position of the Listen call
    ret,        \* value Listen returned
    spc,        \* position of the supervisor goroutine
    npairs,     \* receiver/dispatch pairs spawned so far
    fails,      \* supervisor attempts failed by the environment
    orphans,    \* connections opened whose LISTEN failed
    rpc,        \* per pair: position of the receiver goroutine
    dpc,        \* per pair: position of the dispatch goroutine
    childDone,  \* per pair: cancel() of the child context has been called
    conn,       \* per pair: "none", "open", "closed"
    failed,     \* per pair: the server side of the connection is gone
    held,       \* per pair: payload the receiver is handing off
    cur,        \* per pair: payload OnMsg is running on
    pending,    \* per pair: the pending map of the dispatch loop
    sched,      \* per pair, payload: AfterFunc timers not yet fired
    firedT,     \* per pair, payload: timer callbacks blocked on runPending
    received,   \* per pair: payloads WaitForNotification returned (history)
    opened,     \* per pair, payload: debounce windows opened (history)
    onMsg,      \* per pair: payloads passed to OnMsg, in order (history)
    onLoss,     \* per pair: OnConnectionLoss calls of its receiver (history)
    onRec,      \* OnReconnect calls (history)
    rerr,       \* per pair: errors its receiver passed to OnError (history)
    derr,       \* per pair: errors its dispatch loop passed to OnError
    serr,       \* errors the supervisor passed to OnError (history)
    tpc,        \* InTransaction: position of the call
    txState,    \* InTransaction: "none", "open", "committed", "rolled back"
    panicked,   \* InTransaction: the local variable panicked
    fnRes,      \* InTransaction: how fn(tx) ended
    err,        \* InTransaction: the named result err
    tcalls,     \* InTransaction: calls made on conn, fn and tx (history)
    tdone,      \* results of the InTransaction calls that ended (history)
    insertCache,\* BuildInsert: the sync.Map from key to statement text
    ipc,        \* BuildInsert, per caller: position of the call
    iopts,      \* BuildInsert, per caller: the argument o
    cached,     \* BuildInsert, per caller: the local variable cached
    sql,        \* BuildInsert, per caller: the result sql
    iargs,      \* BuildInsert, per caller: the result args
    ncalls      \* BuildInsert calls made so far

vars == << interval, cancelled, lpc, ret, spc, npairs, fails, orphans, rpc, dpc,
           childDone, conn, failed, held, cur, pending, sched, firedT,
           received, opened, onMsg, onLoss, onRec, rerr, derr, serr,
           tpc, txState, panicked, fnRes, err, tcalls, tdone,
           insertCache, ipc, iopts, cached, sql, iargs, ncalls >>

\* The variables of the listener and those of InTransaction.
listenVars == << interval, cancelled, lpc, ret, spc, npairs, fails, orphans,
                 rpc, dpc, childDone, conn, failed, held, cur, pending, sched,
                 firedT, received, opened, onMsg, onLoss, onRec, rerr, derr,
                 serr >>
txVars == << tpc, txState, panicked, fnRes, err, tcalls, tdone >>
insVars == << insertCache, ipc, iopts, cached, sql, iargs, ncalls >>

\* ----------------------------------------------------------------- helpers
\* The child context made from context.Background() instead of the caller's.
CtxDone_ChildOnly(k) == childDone[k]

\* ctx.Done() of pair k is closed: the child context was cancelled, or its
\* parent opts.Context was.
CtxDone(k) == cancelled \/ childDone[k]

\* fmt.Errorf(format, args...): the text is determined by the format and its
\* arguments, kept apart.
Errorf(format, args) == << "pg_util: ", format, args >>

\* handleError: opts.OnError(fmt.Errorf("pg_util: "+format, args...)), the
\* error appended to the errors the calling goroutine has reported.
handleError(log, format, args) == Append(log, Errorf(format, args))

\* What closing a Done() channel in this step does to the goroutines blocked
\* in a select on it: a dispatch loop at its select returns, a timer callback
\* blocked on runPending returns, the supervisor in its outer select or in
\* its backoff select returns.
Resume ==
    /\ dpc' = [k \in Pairs |->
                  IF dpc[k] = "select" /\ CtxDone(k)' THEN "done" ELSE dpc[k]]
    /\ firedT' = [k \in Pairs |->
                  IF CtxDone(k)' THEN [p \in Payloads |-> 0] ELSE firedT[k]]
    /\ spc' = IF spc \in {"idle", "backoff"} /\ cancelled' THEN "done" ELSE spc

\* The goroutines and the connection of a new pair k, as listen() starts them.
Spawn(k) ==
    /\ npairs' = k
    /\ rpc' = [rpc EXCEPT ![k] = "wait"]
    /\ dpc' = [dpc EXCEPT ![k] = "select"]
    /\ conn' = [conn EXCEPT ![k] = "open"]

\* ---------------------------------------------------------------- initial
Init ==
    /\ interval \in Intervals
    /\ cancelled = FALSE
    /\ lpc = "parse"
    /\ ret = "pending"
    /\ spc = "none"
    /\ npairs = 0
    /\ fails = 0
    /\ orphans = 0
    /\ rpc = [k \in Pairs |-> "none"]
    /\ dpc = [k \in Pairs |-> "none"]
    /\ childDone = [k \in Pairs |-> FALSE]
    /\ conn = [k \in Pairs |-> "none"]
    /\ failed = [k \in Pairs |-> FALSE]
    /\ held = [k \in Pairs |-> "none"]
    /\ cur = [k \in Pairs |-> "none"]
    /\ pending = [k \in Pairs |-> {}]
    /\ sched = [k \in Pairs |-> [p \in Payloads |-> 0]]
    /\ firedT = [k \in Pairs |-> [p \in Payloads |-> 0]]
    /\ received = [k \in Pairs |-> << >>]
    /\ opened = [k \in Pairs |-> [p \in Payloads |-> 0]]
    /\ onMsg = [k \in Pairs |-> << >>]
    /\ onLoss = [k \in Pairs |-> 0]
    /\ onRec = 0
    /\ rerr = [k \in Pairs |-> << >>]
    /\ derr = [k \in Pairs |-> << >>]
    /\ serr = << >>
    /\ tpc = "idle"
    /\ txState = "none"
    /\ panicked = FALSE
    /\ fnRes = "none"
    /\ err = "none"
    /\ tcalls = << >>
    /\ tdone = << >>
    /\ insertCache = << >>
    /\ ipc = [c \in Callers |-> "idle"]
    /\ iopts = [c \in Callers |-> NoOpts]
    /\ cached = [c \in Callers |-> FALSE]
    /\ sql = [c \in Callers |-> << >>]
    /\ iargs = [c \in Callers |-> << >>]
    /\ ncalls = 0

\* ------------------------------------------------------------ environment
\* The caller calls the cancel function of opts.Context; calling it again
\* changes nothing.
Cancel ==
    /\ cancelled' = TRUE
    /\ childDone' = childDone
    /\ Resume
    /\ UNCHANGED << interval, lpc, ret, npairs, fails, orphans, rpc, conn, failed,
                    held, cur, pending, sched, received, opened, onMsg, onLoss,
                    onRec, rerr, derr, serr >>
    /\ UNCHANGED << txVars, insVars >>

\* The server terminates the backend of connection k (pg_terminate_backend).
ConnFail(k) ==
    /\ conn[k] = "open"
    /\ ~failed[k]
    /\ Cardinality({j \in Pairs : failed[j]}) < MaxConnLoss
    /\ failed' = [failed EXCEPT ![k] = TRUE]
    /\ UNCHANGED << interval, cancelled, lpc, ret, spc, npairs, fails, orphans,
                    rpc, dpc, childDone, conn, held, cur, pending, sched, firedT,
                    received, opened, onMsg, onLoss, onRec, rerr, derr, serr >>
    /\ UNCHANGED << txVars, insVars >>

\* ----------------------------------------------------------------- Listen
\* pgx.ParseConfig(opts.ConnectionURL)
ListenParse(ok) ==
    /\ lpc = "parse"
    /\ IF ok THEN lpc' = "connect" /\ ret' = ret
       ELSE lpc' = "returned" /\ ret' = "parse error"
    /\ UNCHANGED << interval, cancelled, spc, npairs, fails, orphans, rpc, dpc,
                    childDone, conn, failed, held, cur, pending, sched, firedT,
                    received, opened, onMsg, onLoss, onRec, rerr, derr, serr >>
    /\ UNCHANGED << txVars, insVars >>

\* pgx.ConnectConfig(opts.Context, connOpts): fails on a cancelled context.
ListenConnect(ok) ==
    /\ lpc = "connect"
    /\ ok => ~cancelled
    /\ IF ok THEN lpc' = "subscribe" /\ ret' = ret
       ELSE lpc' = "returned" /\ ret' = "connect error"
    /\ UNCHANGED << interval, cancelled, spc, npairs, fails, orphans, rpc, dpc,
                    childDone, conn, failed, held, cur, pending, sched, firedT,
                    received, opened, onMsg, onLoss, onRec, rerr, derr, serr >>
    /\ UNCHANGED << txVars, insVars >>

\* ListenSubscribe with the supervisor started before the result of listen is
\* looked at.
ListenSubscribe_SupervisorFirst(ok) ==
    /\ lpc = "subscribe"
    /\ ok => ~cancelled
    /\ lpc' = "returned"
    /\ spc' = IF cancelled THEN "done" ELSE "idle"
    /\ IF ok
       THEN /\ Spawn(1)
            /\ ret' = "nil"
            /\ orphans' = orphans
       ELSE /\ ret' = "listen error"
            /\ orphans' = orphans + 1
            /\ UNCHANGED << npairs, rpc, dpc, conn >>
    /\ UNCHANGED << interval, cancelled, fails, childDone, failed, held, cur,
                    pending, sched, firedT, received, opened, onMsg, onLoss,
                    onRec, rerr, derr, serr >>
    /\ UNCHANGED << txVars, insVars >>

\* listen(conn, opts.Context), then the supervisor goroutine, then return.
\* When the LISTEN statement fails the connection is left as it is.
ListenSubscribe(ok) ==
    /\ lpc = "subscribe"
    /\ ok => ~cancelled
    /\ lpc' = "returned"
    /\ IF ok
       THEN /\ Spawn(1)
            /\ spc' = "idle"
            /\ ret' = "nil"
            /\ orphans' = orphans
       ELSE /\ ret' = "listen error"
            /\ orphans' = orphans + 1
            /\ UNCHANGED << npairs, rpc, dpc, conn, spc >>
    /\ UNCHANGED << interval, cancelled, fails, childDone, failed, held, cur,
                    pending, sched, firedT, received, opened, onMsg, onLoss,
                    onRec, rerr, derr, serr >>
    /\ UNCHANGED << txVars, insVars >>

\* --------------------------------------------------------------- receiver
\* Notifications the receivers have obtained so far.
Obtained == LET Sum[i \in 0..(MaxConnLoss + 1)] ==
                    IF i = 0 THEN 0 ELSE Sum[i - 1] + Len(received[i])
            IN  Sum[MaxConnLoss + 1]

\* conn.WaitForNotification(ctx) returns the next notification, with payload
\* p, which the server sent on the open subscription of connection k.
RecvPayload(k, p) ==
    /\ rpc[k] = "wait"
    /\ ~failed[k]
    /\ ~CtxDone(k)
    /\ Obtained < MaxNotify
    /\ held' = [held EXCEPT ![k] = p]
    /\ received' = [received EXCEPT ![k] = Append(@, p)]
    /\ rpc' = [rpc EXCEPT ![k] = "handoff"]
    /\ UNCHANGED << interval, cancelled, lpc, ret, spc, npairs, fails, orphans,
                    dpc, childDone, conn, failed, cur, pending, sched, firedT,
                    opened, onMsg, onLoss, onRec, rerr, derr, serr >>
    /\ UNCHANGED << txVars, insVars >>

\* The error WaitForNotification returns.
WaitErr(k) == IF failed[k] THEN "connection lost" ELSE "context canceled"

\* RecvError without the report: the receiver returns right after the error
\* handlers.
RecvError_NoReport(k) ==
    /\ rpc[k] = "wait"
    /\ failed[k] \/ CtxDone(k)
    /\ childDone' = [childDone EXCEPT ![k] = TRUE]
    /\ cancelled' = cancelled
    /\ Resume
    /\ onLoss' = [onLoss EXCEPT ![k] = @ + 1]
    /\ rerr' = [rerr EXCEPT ![k] =
                    handleError(@, "wating for message channel=%s error=%s",
                                << Channel, WaitErr(k) >>)]
    /\ rpc' = [rpc EXCEPT ![k] = "done"]
    /\ conn' = [conn EXCEPT ![k] = "closed"]
    /\ UNCHANGED << interval, lpc, ret, npairs, fails, orphans, failed, held, cur,
                    pending, sched, received, opened, onMsg, onRec, derr, serr >>
    /\ UNCHANGED << txVars, insVars >>

\* RecvError taken for any return of WaitForNotification, also when the
\* connection is alive and the context is not done.
RecvError_Spurious(k) ==
    /\ rpc[k] = "wait"
    /\ childDone' = [childDone EXCEPT ![k] = TRUE]
    /\ cancelled' = cancelled
    /\ Resume
    /\ onLoss' = [onLoss EXCEPT ![k] = @ + 1]
    /\ rerr' = [rerr EXCEPT ![k] =
                    handleError(@, "wating for message channel=%s error=%s",
                                << Channel, WaitErr(k) >>)]
    /\ IF cancelled
       THEN /\ rpc' = [rpc EXCEPT ![k] = "done"]
            /\ conn' = [conn EXCEPT ![k] = "closed"]
       ELSE /\ rpc' = [rpc EXCEPT ![k] = "report"]
            /\ conn' = conn
    /\ UNCHANGED << interval, lpc, ret, npairs, fails, orphans, failed, held, cur,
                    pending, sched, received, opened, onMsg, onRec, derr, serr >>
    /\ UNCHANGED << txVars, insVars >>

\* conn.WaitForNotification(ctx) returns an error, because the connection is
\* gone or because ctx is done: cancel(), OnConnectionLoss(), handleError(..).
RecvError(k) ==
    /\ rpc[k] = "wait"
    /\ failed[k] \/ CtxDone(k)
    /\ childDone' = [childDone EXCEPT ![k] = TRUE]
    /\ cancelled' = cancelled
    /\ Resume
    /\ onLoss' = [onLoss EXCEPT ![k] = @ + 1]
    /\ rerr' = [rerr EXCEPT ![k] =
                    handleError(@, "wating for message channel=%s error=%s",
                                << Channel, WaitErr(k) >>)]
    /\ IF cancelled
       THEN \* select: case <-opts.Context.Done(); return; conn.Close(..)
            /\ rpc' = [rpc EXCEPT ![k] = "done"]
            /\ conn' = [conn EXCEPT ![k] = "closed"]
       ELSE /\ rpc' = [rpc EXCEPT ![k] = "report"]
            /\ conn' = conn
    /\ UNCHANGED << interval, lpc, ret, npairs, fails, orphans, failed, held, cur,
                    pending, sched, received, opened, onMsg, onRec, derr, serr >>
    /\ UNCHANGED << txVars, insVars >>

\* RecvReport by a receiver that goes on with its loop after the report.
RecvReport_Retry(k) ==
    /\ rpc[k] = "report"
    /\ spc = "idle"
    /\ ~cancelled
    /\ rpc' = [rpc EXCEPT ![k] = "wait"]
    /\ spc' = "connect"
    /\ UNCHANGED << interval, cancelled, lpc, ret, npairs, fails, orphans, dpc,
                    childDone, conn, failed, held, cur, pending, sched, firedT,
                    received, opened, onMsg, onLoss, onRec, rerr, derr, serr >>
    /\ UNCHANGED << txVars, insVars >>

\* select: case reconnect <- struct{}{}, taken with the supervisor's
\* case <-reconnect of its outer select.
RecvReport(k) ==
    /\ rpc[k] = "report"
    /\ spc = "idle"
    /\ ~cancelled
    /\ rpc' = [rpc EXCEPT ![k] = "closing"]
    /\ spc' = "connect"
    /\ UNCHANGED << interval, cancelled, lpc, ret, npairs, fails, orphans, dpc,
                    childDone, conn, failed, held, cur, pending, sched, firedT,
                    received, opened, onMsg, onLoss, onRec, rerr, derr, serr >>
    /\ UNCHANGED << txVars, insVars >>

\* select: case <-opts.Context.Done(); return; conn.Close(..)
RecvReportCancelled(k) ==
    /\ rpc[k] = "report"
    /\ cancelled
    /\ rpc' = [rpc EXCEPT ![k] = "done"]
    /\ conn' = [conn EXCEPT ![k] = "closed"]
    /\ UNCHANGED << interval, cancelled, lpc, ret, spc, npairs, fails, orphans,
                    dpc, childDone, failed, held, cur, pending, sched, firedT,
                    received, opened, onMsg, onLoss, onRec, rerr, derr, serr >>
    /\ UNCHANGED << txVars, insVars >>

\* The handoff as a plain send receive <- n.Payload, without the select on
\* ctx.Done(): a receiver with a payload in hand never notices the end.
RecvHandoffCancelled_PlainSend(k) ==
    /\ rpc[k] = "handoff"
    /\ CtxDone(k)
    /\ FALSE
    /\ UNCHANGED vars

\* select: case <-ctx.Done(): return, with a payload in hand; conn.Close(..),
\* cancel().
RecvHandoffCancelled(k) ==
    /\ rpc[k] = "handoff"
    /\ CtxDone(k)
    /\ rpc' = [rpc EXCEPT ![k] = "done"]
    /\ conn' = [conn EXCEPT ![k] = "closed"]
    /\ childDone' = [childDone EXCEPT ![k] = TRUE]
    /\ held' = [held EXCEPT ![k] = "none"]
    /\ UNCHANGED << interval, cancelled, lpc, ret, spc, npairs, fails, orphans,
                    dpc, failed, cur, pending, sched, firedT, received, opened,
                    onMsg, onLoss, onRec, rerr, derr, serr >>
    /\ UNCHANGED << txVars, insVars >>

\* The deferred calls of the receiver after its report: conn.Close(..), then
\* cancel().
RecvClose(k) ==
    /\ rpc[k] = "closing"
    /\ conn' = [conn EXCEPT ![k] = "closed"]
    /\ childDone' = [childDone EXCEPT ![k] = TRUE]
    /\ rpc' = [rpc EXCEPT ![k] = "done"]
    /\ UNCHANGED << interval, cancelled, lpc, ret, spc, npairs, fails, orphans,
                    dpc, failed, held, cur, pending, sched, firedT, received,
                    opened, onMsg, onLoss, onRec, rerr, derr, serr >>
    /\ UNCHANGED << txVars, insVars >>

\* ---------------------------------------------------------- dispatch loop
\* handle(msg) up to the call of opts.OnMsg(msg), which is then running.
HandleStart(k, msg) ==
    /\ dpc' = [dpc EXCEPT ![k] = "onmsg"]
    /\ cur' = [cur EXCEPT ![k] = msg]
    /\ onMsg' = [onMsg EXCEPT ![k] = Append(@, msg)]

\* Debounce without the lookup in pending: every payload gets a timer.
Debounce_NoLookup(k, msg) ==
    /\ pending' = [pending EXCEPT ![k] = @ \cup {msg}]
    /\ sched' = [sched EXCEPT ![k][msg] = @ + 1]
    /\ opened' = [opened EXCEPT ![k][msg] = @ + 1]
    /\ UNCHANGED << dpc, cur, onMsg >>

\* The debounce branch: a payload without a pending entry gets one and a
\* timer; a payload with a pending entry is dropped.
Debounce(k, msg) ==
    /\ IF msg \notin pending[k]
       THEN /\ pending' = [pending EXCEPT ![k] = @ \cup {msg}]
            /\ sched' = [sched EXCEPT ![k][msg] = @ + 1]
            /\ opened' = [opened EXCEPT ![k][msg] = @ + 1]
       ELSE UNCHANGED << pending, sched, opened >>
    /\ UNCHANGED << dpc, cur, onMsg >>

\* OnReceive without the test of opts.DebounceInterval == 0.
OnReceive_AlwaysDebounce(k, msg) == Debounce(k, msg)

\* The branch of the dispatch loop for a payload from the receiver.
OnReceive(k, msg) ==
    IF interval = 0
    THEN HandleStart(k, msg) /\ UNCHANGED << pending, sched, opened >>
    ELSE Debounce(k, msg)

\* select: case msg := <-receive, taken with the receiver's
\* case receive <- n.Payload.
DispatchReceive(k) ==
    /\ dpc[k] = "select"
    /\ rpc[k] = "handoff"
    /\ ~CtxDone(k)
    /\ rpc' = [rpc EXCEPT ![k] = "wait"]
    /\ held' = [held EXCEPT ![k] = "none"]
    /\ OnReceive(k, held[k])
    /\ UNCHANGED << interval, cancelled, lpc, ret, spc, npairs, fails, orphans,
                    childDone, conn, failed, firedT, received, onLoss, onRec,
                    rerr, derr, serr >>
    /\ UNCHANGED << txVars, insVars >>

\* DispatchRunPending with a timer callback that stays ready to send.
DispatchRunPending_NoConsume(k, p) ==
    /\ dpc[k] = "select"
    /\ firedT[k][p] > 0
    /\ ~CtxDone(k)
    /\ pending' = [pending EXCEPT ![k] = @ \ {p}]
    /\ HandleStart(k, p)
    /\ UNCHANGED << interval, cancelled, lpc, ret, spc, npairs, fails, orphans,
                    rpc, childDone, conn, failed, held, sched, firedT, received,
                    opened, onLoss, onRec, rerr, derr, serr >>
    /\ UNCHANGED << txVars, insVars >>

\* DispatchRunPending without delete(pending, msg).
DispatchRunPending_NoDelete(k, p) ==
    /\ dpc[k] = "select"
    /\ firedT[k][p] > 0
    /\ ~CtxDone(k)
    /\ firedT' = [firedT EXCEPT ![k][p] = @ - 1]
    /\ HandleStart(k, p)
    /\ UNCHANGED << interval, cancelled, lpc, ret, spc, npairs, fails, orphans,
                    rpc, childDone, conn, failed, held, pending, sched, received,
                    opened, onLoss, onRec, rerr, derr, serr >>
    /\ UNCHANGED << txVars, insVars >>

\* select: case msg := <-runPending, taken with the select of a timer
\* callback: delete(pending, msg); handle(msg).
DispatchRunPending(k, p) ==
    /\ dpc[k] = "select"
    /\ firedT[k][p] > 0
    /\ ~CtxDone(k)
    /\ firedT' = [firedT EXCEPT ![k][p] = @ - 1]
    /\ pending' = [pending EXCEPT ![k] = @ \ {p}]
    /\ HandleStart(k, p)
    /\ UNCHANGED << interval, cancelled, lpc, ret, spc, npairs, fails, orphans,
                    rpc, childDone, conn, failed, held, sched, received, opened,
                    onLoss, onRec, rerr, derr, serr >>
    /\ UNCHANGED << txVars, insVars >>

\* OnMsgReturn with a loop that returns when the handler fails.
OnMsgReturn_StopOnError(k) ==
    /\ dpc[k] = "onmsg"
    /\ derr' = IF OnMsg(cur[k]) # "nil"
               THEN [derr EXCEPT ![k] =
                        handleError(@, "listening on channel=%s msg=%s error=%s",
                                    << Channel, cur[k], OnMsg(cur[k]) >>)]
               ELSE derr
    /\ dpc' = [dpc EXCEPT ![k] = IF CtxDone(k) \/ OnMsg(cur[k]) # "nil"
                                 THEN "done" ELSE "select"]
    /\ cur' = [cur EXCEPT ![k] = "none"]
    /\ UNCHANGED << interval, cancelled, lpc, ret, spc, npairs, fails, orphans,
                    rpc, childDone, conn, failed, held, pending, sched, firedT,
                    received, opened, onMsg, onLoss, onRec, rerr, serr >>
    /\ UNCHANGED << txVars, insVars >>

\* opts.OnMsg(msg) returns; handle reports an error through handleError; the
\* loop is back at its select.
OnMsgReturn(k) ==
    /\ dpc[k] = "onmsg"
    /\ derr' = IF OnMsg(cur[k]) # "nil"
               THEN [derr EXCEPT ![k] =
                        handleError(@, "listening on channel=%s msg=%s error=%s",
                                    << Channel, cur[k], OnMsg(cur[k]) >>)]
               ELSE derr
    /\ dpc' = [dpc EXCEPT ![k] = IF CtxDone(k) THEN "done" ELSE "select"]
    /\ cur' = [cur EXCEPT ![k] = "none"]
    /\ UNCHANGED << interval, cancelled, lpc, ret, spc, npairs, fails, orphans,
                    rpc, childDone, conn, failed, held, pending, sched, firedT,
                    received, opened, onMsg, onLoss, onRec, rerr, serr >>
    /\ UNCHANGED << txVars, insVars >>

\* --------------------------------------------------------- debounce timers
\* opts.DebounceInterval has passed: the AfterFunc callback runs and blocks
\* in its select, or leaves it at once by case <-ctx.Done().
TimerFire(k, p) ==
    /\ sched[k][p] > 0
    /\ sched' = [sched EXCEPT ![k][p] = @ - 1]
    /\ firedT' = IF CtxDone(k) THEN firedT
                 ELSE [firedT EXCEPT ![k][p] = @ + 1]
    /\ UNCHANGED << interval, cancelled, lpc, ret, spc, npairs, fails, orphans,
                    rpc, dpc, childDone, conn, failed, held, cur, pending,
                    received, opened, onMsg, onLoss, onRec, rerr, derr, serr >>
    /\ UNCHANGED << txVars, insVars >>

\* -------------------------------------------------------------- supervisor
\* An attempt fails because opts.Context is cancelled, or for a reason of the
\* environment, of which the model allows MaxFails.
MayFail == cancelled \/ fails < MaxFails
FailsAfter == IF cancelled THEN fails ELSE fails + 1
\* A supervisor that returns after a failed attempt.
AfterFailure_GiveUp == "done"
\* After a failed attempt: the backoff select, left at once when opts.Context
\* is done.
AfterFailure == IF cancelled THEN "done" ELSE "backoff"
\* The error of a failed attempt.
AttemptErr(what) == IF cancelled THEN "context canceled" ELSE what
ReconnectError(log, what) ==
    handleError(log, "reconnecting channel=%s error=%s",
                << Channel, AttemptErr(what) >>)

\* pgx.ConnectConfig(opts.Context, connOpts) in the retry loop.
SupConnect(ok) ==
    /\ spc = "connect"
    /\ IF ok
       THEN /\ ~cancelled
            /\ spc' = "subscribe"
            /\ UNCHANGED << fails, serr >>
       ELSE /\ MayFail
            /\ fails' = FailsAfter
            /\ serr' = ReconnectError(serr, "connect failed")
            /\ spc' = AfterFailure
    /\ UNCHANGED << interval, cancelled, lpc, ret, npairs, orphans, rpc, dpc,
                    childDone, conn, failed, held, cur, pending, sched, firedT,
                    received, opened, onMsg, onLoss, onRec, rerr, derr >>
    /\ UNCHANGED << txVars, insVars >>

\* SupSubscribe with OnReconnect called after the if, for a failed LISTEN as
\* well.
SupSubscribe_ReconnectAlways(ok) ==
    /\ spc = "subscribe"
    /\ IF ok
       THEN /\ ~cancelled
            /\ Spawn(npairs + 1)
            /\ spc' = "spawned"
            /\ onRec' = onRec
            /\ UNCHANGED << fails, orphans, serr >>
       ELSE /\ MayFail
            /\ fails' = FailsAfter
            /\ orphans' = orphans + 1
            /\ serr' = ReconnectError(serr, "listen failed")
            /\ spc' = AfterFailure
            /\ onRec' = onRec + 1
            /\ UNCHANGED << npairs, rpc, dpc, conn >>
    /\ UNCHANGED << interval, cancelled, lpc, ret, childDone, failed, held, cur,
                    pending, sched, firedT, received, opened, onMsg, onLoss,
                    rerr, derr >>
    /\ UNCHANGED << txVars, insVars >>

\* listen(conn, opts.Context) in the retry loop: a new pair on success; on
\* failure the error is reported and the connection is left as it is.
SupSubscribe(ok) ==
    /\ spc = "subscribe"
    /\ IF ok
       THEN /\ ~cancelled
            /\ Spawn(npairs + 1)
            /\ spc' = "spawned"
            /\ UNCHANGED << fails, orphans, serr >>
       ELSE /\ MayFail
            /\ fails' = FailsAfter
            /\ orphans' = orphans + 1
            /\ serr' = ReconnectError(serr, "listen failed")
            /\ spc' = AfterFailure
            /\ UNCHANGED << npairs, rpc, dpc, conn >>
    /\ UNCHANGED << interval, cancelled, lpc, ret, childDone, failed, held, cur,
                    pending, sched, firedT, received, opened, onMsg, onLoss,
                    onRec, rerr, derr >>
    /\ UNCHANGED << txVars, insVars >>

\* opts.OnReconnect(); break reconnect; the outer select.
SupOnReconnect ==
    /\ spc = "spawned"
    /\ onRec' = onRec + 1
    /\ spc' = IF cancelled THEN "done" ELSE "idle"
    /\ UNCHANGED << interval, cancelled, lpc, ret, npairs, fails, orphans, rpc,
                    dpc, childDone, conn, failed, held, cur, pending, sched,
                    firedT, received, opened, onMsg, onLoss, rerr, derr, serr >>
    /\ UNCHANGED << txVars, insVars >>

\* select: case <-time.After(time.Second)
SupBackoff ==
    /\ spc = "backoff"
    /\ ~cancelled
    /\ spc' = "connect"
    /\ UNCHANGED << interval, cancelled, lpc, ret, npairs, fails, orphans, rpc,
                    dpc, childDone, conn, failed, held, cur, pending, sched,
                    firedT, received, opened, onMsg, onLoss, onRec, rerr, derr,
                    serr >>
    /\ UNCHANGED << txVars, insVars >>

\* ----------------------------------------------------------- specification
Next ==
    \/ Cancel
    \/ \E k \in Pairs : ConnFail(k)
    \/ \E ok \in BOOLEAN : ListenParse(ok)
    \/ \E ok \in BOOLEAN : ListenConnect(ok)
    \/ \E ok \in BOOLEAN : ListenSubscribe(ok)
    \/ \E k \in Pairs, p \in Payloads : RecvPayload(k, p)
    \/ \E k \in Pairs : RecvError(k)
    \/ \E k \in Pairs : RecvReport(k)
    \/ \E k \in Pairs : RecvReportCancelled(k)
    \/ \E k \in Pairs : RecvHandoffCancelled(k)
    \/ \E k \in Pairs : RecvClose(k)
    \/ \E k \in Pairs : DispatchReceive(k)
    \/ \E k \in Pairs, p \in Payloads : DispatchRunPending(k, p)
    \/ \E k \in Pairs : OnMsgReturn(k)
    \/ \E k \in Pairs, p \in Payloads : TimerFire(k, p)
    \/ \E ok \in BOOLEAN : SupConnect(ok)
    \/ \E ok \in BOOLEAN : SupSubscribe(ok)
    \/ SupOnReconnect
    \/ SupBackoff

Spec == Init /\ [][Next]_vars

\* The steps of the goroutines of pair k that the scheduler lets happen,
\* user callbacks returning.
RecvStep(k) ==
    \/ RecvError(k)
    \/ RecvReport(k)
    \/ RecvReportCancelled(k)
    \/ RecvHandoffCancelled(k)
    \/ RecvClose(k)
DispatchStep(k) ==
    \/ DispatchReceive(k)
    \/ \E p \in Payloads : DispatchRunPending(k, p)
    \/ OnMsgReturn(k)
SupStep == SupBackoff \/ SupOnReconnect
\* pgx.ConnectConfig and conn.Exec return, with or without an error.
SupAttempt == \E ok \in BOOLEAN : SupConnect(ok) \/ SupSubscribe(ok)

\* Every goroutine that can take a step takes one, every timer fires, every
\* attempt of the supervisor ends, and an attempt that can succeed again and
\* again does succeed.
Fairness ==
    /\ \A k \in Pairs : WF_vars(RecvStep(k)) /\ WF_vars(DispatchStep(k))
    /\ \A k \in Pairs, p \in Payloads : WF_vars(TimerFire(k, p))
    /\ WF_vars(SupStep)
    /\ WF_vars(SupAttempt)
    /\ SF_vars(SupConnect(TRUE))
    /\ SF_vars(SupSubscribe(TRUE))

FairSpec == Spec /\ Fairness

\* ---------------------------------------------------------- InTransaction
\* InTransaction calls a caller makes one after the other.
MaxCalls == 3
\* How fn(tx) ends: it returns nil, it returns an error, or it panics.
FnResults == {"nil", "error", "panic"}

\* The caller calls InTransaction(ctx, conn, fn).
TxCall ==
    /\ tpc = "idle"
    /\ Len(tdone) < MaxCalls
    /\ tpc' = "begin"
    /\ txState' = "none"
    /\ panicked' = FALSE
    /\ fnRes' = "none"
    /\ err' = "none"
    /\ tcalls' = << >>
    /\ UNCHANGED tdone
    /\ UNCHANGED << listenVars, insVars >>

\* tx, err := conn.Begin(ctx); if err != nil { return }; panicked := true
\* and the deferred function registered.
TxBegin(ok) ==
    /\ tpc = "begin"
    /\ tcalls' = Append(tcalls, "Begin")
    /\ IF ok
       THEN /\ txState' = "open"
            /\ err' = "nil"
            /\ panicked' = TRUE
            /\ tpc' = "fn"
       ELSE /\ txState' = "none"
            /\ err' = "begin error"
            /\ panicked' = panicked
            /\ tpc' = "returned"
    /\ UNCHANGED << fnRes, tdone >>
    /\ UNCHANGED << listenVars, insVars >>

\* The deferred function with panicked = p: where the call is next.
Deferred(p) == IF p THEN "rollback" ELSE "returned"

\* err = fn(tx).  On an error: goto end; panicked = false; return, and the
\* deferred function finds panicked false.  On a panic the deferred function
\* runs with panicked still true.
TxFn(res) ==
    /\ tpc = "fn"
    /\ tcalls' = Append(tcalls, "fn")
    /\ fnRes' = res
    /\ CASE res = "nil" ->
              /\ err' = "nil"
              /\ panicked' = panicked
              /\ tpc' = "commit"
         [] res = "error" ->
              /\ err' = "fn error"
              /\ panicked' = FALSE
              /\ tpc' = Deferred(panicked')
         [] res = "panic" ->
              /\ err' = err
              /\ panicked' = panicked
              /\ tpc' = Deferred(panicked')
    /\ UNCHANGED << txState, tdone >>
    /\ UNCHANGED << listenVars, insVars >>

\* err = tx.Commit(ctx); end: panicked = false; return.  The transaction is
\* closed by Commit whether it succeeds or not.
TxCommit(ok) ==
    /\ tpc = "commit"
    /\ tcalls' = Append(tcalls, "Commit")
    /\ txState' = IF ok THEN "committed" ELSE "rolled back"
    /\ err' = IF ok THEN "nil" ELSE "commit error"
    /\ panicked' = FALSE
    /\ tpc' = Deferred(panicked')
    /\ UNCHANGED << fnRes, tdone >>
    /\ UNCHANGED << listenVars, insVars >>

\* The deferred function that tests !panicked.
TxRollback_Inverted ==
    /\ tpc = "rollback"
    /\ tpc' = "panicking"
    /\ UNCHANGED << tcalls, txState, panicked, fnRes, err, tdone >>
    /\ UNCHANGED << listenVars, insVars >>

\* The deferred function while fn's panic unwinds: tx.Rollback(ctx); the
\* panic then reaches the caller.
TxRollback ==
    /\ tpc = "rollback"
    /\ tcalls' = Append(tcalls, "Rollback")
    /\ txState' = "rolled back"
    /\ tpc' = "panicking"
    /\ UNCHANGED << panicked, fnRes, err, tdone >>
    /\ UNCHANGED << listenVars, insVars >>

\* What tx.Rollback returns to a caller that calls it after InTransaction.
CallerRollback == IF txState = "open" THEN "nil" ELSE "ErrTxClosed"

\* The caller has the result, or has recovered from the panic, and calls
\* Rollback on the transaction it saw, if there is one.
TxReturn ==
    /\ tpc \in {"returned", "panicking"}
    /\ tdone' = Append(tdone, << fnRes, IF tpc = "panicking" THEN "panic" ELSE err,
                                 txState,
                                 IF txState = "none" THEN "none" ELSE CallerRollback >>)
    /\ tpc' = "idle"
    /\ UNCHANGED << txState, panicked, fnRes, err, tcalls >>
    /\ UNCHANGED << listenVars, insVars >>

TxNext ==
    \/ TxCall
    \/ \E ok \in BOOLEAN : TxBegin(ok)
    \/ \E res \in FnResults : TxFn(res)
    \/ \E ok \in BOOLEAN : TxCommit(ok)
    \/ TxRollback
    \/ TxReturn

\* InTransaction called on its own, no listener running.
TxInit == Init /\ interval = 0
TxSpec == TxInit /\ [][TxNext]_vars

\* ------------------------------------------------------------ BuildInsert
\* A struct field: its name, its db tag as strings.Split(tag, ",") returns
\* it, whether it is embedded (Anonymous) and then the fields of its type.
Field(name, tag) == [name |-> name, tag |-> tag, anonymous |-> FALSE, typ |-> << >>]
Embedded(name, typ) == [name |-> name, tag |-> << "" >>, anonymous |-> TRUE, typ |-> typ]

\* struct { F1 string; F2 int; F3 int `db:"-"` }
TSimple == << Field("F1", << "" >>), Field("F2", << "" >>), Field("F3", << "-" >>) >>
\* struct { F1 string `db:"field_1"`; F2 int `db:",string"` }
TTagged == << Field("F1", << "field_1" >>), Field("F2", << "", "string" >>) >>
\* struct { innerOverlapping; F1 string; F2 int `db:"F2,string"`; inner },
\* innerOverlapping = struct { F2 int }, inner = struct { F3 int }
TEmbedded ==
    << Embedded("innerOverlapping", << Field("F2", << "" >>) >>),
       Field("F1", << "" >>), Field("F2", << "F2", "string" >>),
       Embedded("inner", << Field("F3", << "" >>) >>) >>

\* struct { outer; F1 string; other }, outer = struct { deep; G1 int `db:"g"` },
\* deep = struct { D1 int `db:"d"` },
\* other = struct { O1 int `db:"d"`; O2 int `db:"g"`; O3 int `db:"-"`; O4 int }
TNested ==
    << Embedded("outer", << Embedded("deep", << Field("D1", << "d" >>) >>),
                            Field("G1", << "g" >>) >>),
       Field("F1", << "" >>),
       Embedded("other", << Field("O1", << "d" >>), Field("O2", << "g" >>),
                            Field("O3", << "-" >>), Field("O4", << "" >>) >>) >>

Types == {TSimple, TTagged, TEmbedded, TNested}
Tables == {"t1", "t2"}
Prefixes == {"", "with v as (select 1)"}
Suffixes == {"", "returning f1"}
\* What distinguishes two values of one struct type.
Values == {1, 2}
InsertOptsSet ==
    [Table : Tables, Prefix : Prefixes, Suffix : Suffixes, Data : Types,
     val : Values]

\* The key with the suffix left out.
InsertKey_NoSuffix(o) ==
    [table |-> o.Table, prefix |-> o.Prefix, suffix |-> "", typ |-> o.Data]

\* k: table, prefix, suffix and reflect.TypeOf(o.Data).
InsertKey(o) ==
    [table |-> o.Table, prefix |-> o.Prefix, suffix |-> o.Suffix, typ |-> o.Data]

\* v.Interface() of field f, and fmt.Sprint of it for a ",string" tag.
FieldValue(f, val, convertToString) ==
    IF convertToString THEN << "Sprint", << f.name, val >> >>
    ELSE << f.name, val >>

\* ScanField without the lookup of the name in dedupMap.
ScanField_NoDedup(f, st, isCached, val) ==
    LET tag == f.tag[1]
        name == IF tag = "" THEN f.name ELSE tag
        convertToString == \E j \in 2..Len(f.tag) : f.tag[j] = "string"
        quote == IF tag # "" THEN << "\"" >> ELSE << >>
        comma == IF st.dedupMap # {} THEN << "," >> ELSE << >>
    IN  IF tag = "-" THEN st
        ELSE IF f.anonymous
             THEN [st EXCEPT !.embedded = Append(@, f.typ)]
        ELSE [st EXCEPT
                 !.w = IF isCached THEN @
                       ELSE @ \o comma \o quote \o << name >> \o quote,
                 !.dedupMap = @ \cup {name},
                 !.ncols = @ + 1,
                 !.args = Append(@, [col |-> name,
                                     v |-> FieldValue(f, val, convertToString)])]

\* One field of the loop of scanStruct on the state st of the call: the
\* builder w, dedupMap, args (with the column each belongs to) and the
\* embedded structs met.
ScanField(f, st, isCached, val) ==
    LET tag == f.tag[1]
        name == IF tag = "" THEN f.name ELSE tag
        convertToString == \E j \in 2..Len(f.tag) : f.tag[j] = "string"
        quote == IF tag # "" THEN << "\"" >> ELSE << >>
        comma == IF st.dedupMap # {} THEN << "," >> ELSE << >>
    IN  IF tag = "-" THEN st
        ELSE IF f.anonymous
             THEN [st EXCEPT !.embedded = Append(@, f.typ)]
        ELSE IF name \in st.dedupMap THEN st
        ELSE [st EXCEPT
                 !.w = IF isCached THEN @
                       ELSE @ \o comma \o quote \o << name >> \o quote,
                 !.dedupMap = @ \cup {name},
                 !.ncols = @ + 1,
                 !.args = Append(@, [col |-> name,
                                     v |-> FieldValue(f, val, convertToString)])]

RECURSIVE ScanFields(_, _, _, _, _)
ScanFields(fields, i, st, isCached, val) ==
    IF i > Len(fields) THEN st
    ELSE ScanFields(fields, i + 1, ScanField(fields[i], st, isCached, val),
                    isCached, val)

\* scanStruct: the fields of the struct first, then the embedded structs in
\* the order met, each with its own embedded list.
RECURSIVE scanStruct(_, _, _, _)
RECURSIVE ScanEmbedded(_, _, _, _, _)
ScanEmbedded(embedded, i, st, isCached, val) ==
    IF i > Len(embedded) THEN st
    ELSE ScanEmbedded(embedded, i + 1,
                      scanStruct(embedded[i], st, isCached, val), isCached, val)
scanStruct(fields, st, isCached, val) ==
    LET own == ScanFields(fields, 1, [st EXCEPT !.embedded = << >>], isCached, val)
    IN  ScanEmbedded(own.embedded, 1, own, isCached, val)

\* $1,$2,...,$n
RECURSIVE Placeholders(_, _)
Placeholders(i, n) ==
    IF i >= n THEN << >>
    ELSE (IF i # 0 THEN << "," >> ELSE << >>) \o << "$", i + 1 >>
             \o Placeholders(i + 1, n)

\* The body of BuildInsert after the Load: the statement text as the pieces
\* written to w, built only if not cached, and args.
Build(o, isCached, cachedSql) ==
    LET head == IF isCached THEN << >>
                ELSE (IF o.Prefix # "" THEN << o.Prefix, " " >> ELSE << >>)
                         \o << "INSERT INTO \"", o.Table, "\" (" >>
        st == scanStruct(o.Data,
                         [w |-> head, dedupMap |-> {}, ncols |-> 0,
                          args |-> << >>, embedded |-> << >>],
                         isCached, o.val)
        text == st.w \o << ") VALUES (" >> \o Placeholders(0, st.ncols)
                     \o << ")" >>
                     \o (IF o.Suffix # "" THEN << " ", o.Suffix >> ELSE << >>)
    IN  [sql |-> IF isCached THEN cachedSql ELSE text, args |-> st.args]

\* A caller calls BuildInsert(o): insertCache.Load(k).
InsLoad(c, o) ==
    /\ ipc[c] = "idle"
    /\ ncalls < MaxInserts
    /\ ncalls' = ncalls + 1
    /\ iopts' = [iopts EXCEPT ![c] = o]
    /\ cached' = [cached EXCEPT ![c] = InsertKey(o) \in DOMAIN insertCache]
    /\ sql' = [sql EXCEPT ![c] = IF InsertKey(o) \in DOMAIN insertCache
                                 THEN insertCache[InsertKey(o)] ELSE << >>]
    /\ iargs' = [iargs EXCEPT ![c] = << >>]
    /\ ipc' = [ipc EXCEPT ![c] = "scan"]
    /\ UNCHANGED insertCache
    /\ UNCHANGED << listenVars, txVars >>

\* The scan of o.Data and, if not cached, the building of the text; a cached
\* call returns.
InsScan(c) ==
    /\ ipc[c] = "scan"
    /\ sql' = [sql EXCEPT ![c] = Build(iopts[c], cached[c], sql[c]).sql]
    /\ iargs' = [iargs EXCEPT ![c] = Build(iopts[c], cached[c], sql[c]).args]
    /\ ipc' = [ipc EXCEPT ![c] = IF cached[c] THEN "returned" ELSE "store"]
    /\ UNCHANGED << insertCache, iopts, cached, ncalls >>
    /\ UNCHANGED << listenVars, txVars >>

\* insertCache.Store(k, sql); return
InsStore(c) ==
    /\ ipc[c] = "store"
    /\ insertCache' =
           [k \in DOMAIN insertCache \cup {InsertKey(iopts[c])} |->
               IF k = InsertKey(iopts[c]) THEN sql[c] ELSE insertCache[k]]
    /\ ipc' = [ipc EXCEPT ![c] = "returned"]
    /\ UNCHANGED << iopts, cached, sql, iargs, ncalls >>
    /\ UNCHANGED << listenVars, txVars >>

\* The caller has used the result.
InsDone(c) ==
    /\ ipc[c] = "returned"
    /\ ipc' = [ipc EXCEPT ![c] = "idle"]
    /\ iopts' = [iopts EXCEPT ![c] = NoOpts]
    /\ cached' = [cached EXCEPT ![c] = FALSE]
    /\ sql' = [sql EXCEPT ![c] = << >>]
    /\ iargs' = [iargs EXCEPT ![c] = << >>]
    /\ UNCHANGED << insertCache, ncalls >>
    /\ UNCHANGED << listenVars, txVars >>

InsNext ==
    \/ \E c \in Callers, o \in InsertOptsSet : InsLoad(c, o)
    \/ \E c \in Callers : InsScan(c)
    \/ \E c \in Callers : InsStore(c)
    \/ \E c \in Callers : InsDone(c)

\* BuildInsert called by the callers on its own.
InsInit == Init /\ interval = 0
InsSpec == InsInit /\ [][InsNext]_vars

\* ============================================================ properties
Count(seq, p) == Cardinality({i \in 1..Len(seq) : seq[i] = p})
Front(seq) == SubSeq(seq, 1, Len(seq) - 1)
IsPrefix(s, t) == Len(s) <= Len(t) /\ SubSeq(t, 1, Len(s)) = s

\* C1: with DebounceInterval = 0 the payloads passed to OnMsg by a pair are
\* always a prefix of the payloads its receiver obtained, and while the
\* subscription's context is not done they are all of them, in the same
\* order, but for the one payload the receiver is still handing off.
C1_ExactlyOnceInOrder ==
    \A k \in Pairs :
        interval = 0 =>
            /\ IsPrefix(onMsg[k], received[k])
            /\ ~CtxDone(k) =>
                   onMsg[k] = IF rpc[k] = "handoff" THEN Front(received[k])
                              ELSE received[k]

\* C1 witness: a live subscription has delivered two different payloads.
C1_Witness ==
    \E k \in Pairs :
        /\ interval = 0 /\ ~CtxDone(k)
        /\ Len(onMsg[k]) = 2 /\ onMsg[k][1] # onMsg[k][2]
        /\ onMsg[k] = received[k]

\* The debounce window of p is open in pair k.
InWindow(k, p) == IF p \in pending[k] THEN 1 ELSE 0

\* C2: with DebounceInterval > 0, on a subscription whose context is not
\* done, OnMsg(p) has been invoked once for every window of p that was
\* opened and is closed again, however many p were received, and an open
\* window has exactly one timer.
C2_OneDeliveryPerWindow ==
    \A k \in Pairs, p \in Payloads :
        (interval > 0 /\ ~CtxDone(k)) =>
            /\ Count(onMsg[k], p) + InWindow(k, p) = opened[k][p]
            /\ sched[k][p] + firedT[k][p] = InWindow(k, p)
            /\ opened[k][p] <= Count(received[k], p)

\* C2 witness: two notifications with the same payload were received within
\* one window, which ended with one OnMsg invocation.
C2_Witness ==
    \E k \in Pairs, p \in Payloads :
        /\ interval > 0 /\ ~CtxDone(k)
        /\ Count(received[k], p) = 2 /\ rpc[k] = "wait"
        /\ opened[k][p] = 1
        /\ Count(onMsg[k], p) = 1

\* C3: under FairSpec, unless the caller cancels: a connection that fails
\* leads to OnConnectionLoss of its receiver; OnConnectionLoss of pair k
\* leads to the k-th OnReconnect; and a payload a receiver of a new
\* connection has obtained leads to one more OnMsg of that payload, unless,
\* with debouncing, the new connection fails as well before.
C3_ReconnectResumes ==
    /\ \A k \in Pairs : failed[k] ~> (cancelled \/ onLoss[k] > 0)
    /\ \A k \in Pairs : (onLoss[k] > 0 /\ ~cancelled) ~> (cancelled \/ onRec >= k)
    /\ \A k \in Pairs \ {1}, p \in Payloads, c \in 0..MaxNotify :
           (rpc[k] = "handoff" /\ held[k] = p /\ Count(onMsg[k], p) = c)
               ~> \/ cancelled
                  \/ interval > 0 /\ failed[k]
                  \/ Count(onMsg[k], p) > c

\* C3 witness: after a connection loss and the reconnect, never cancelled, a
\* payload of the new connection has been passed to OnMsg.
C3_Witness ==
    /\ ~cancelled
    /\ failed[1] /\ onLoss[1] = 1 /\ onRec = 1
    /\ Len(onMsg[2]) > 0

\* C4: OnMsg is running in at most one goroutine.  The code breaks it: the
\* dispatch loop of the failed subscription can still be inside OnMsg when
\* the loop of the new subscription calls it.
C4_OnMsgSerialized == Cardinality({k \in Pairs : dpc[k] = "onmsg"}) <= 1

\* C5: once opts.Context is cancelled no step passes a payload to OnMsg.
C5_NoDeliveryAfterCancel == [][cancelled => onMsg' = onMsg]_vars

\* C5 witness: the context is cancelled while a receiver is blocked handing
\* off a payload and, with debouncing, another payload has a pending timer.
C5_Witness ==
    \E k \in Pairs :
        /\ cancelled
        /\ rpc[k] = "handoff"
        /\ interval > 0 => \E p \in Payloads : sched[k][p] > 0

\* The errors a goroutine reported that are context cancellations.
Cancellations(log) ==
    {i \in 1..Len(log) : log[i][3][2] = "context canceled"}

\* C6: cancelling is silent: OnConnectionLoss is invoked only for a
\* connection that failed, and no error passed to OnError is the
\* cancellation of the context.  The code breaks it: a receiver whose
\* WaitForNotification ends by the cancellation calls both callbacks.
C6_CancelSilent ==
    /\ \A k \in Pairs : onLoss[k] > 0 => failed[k]
    /\ \A k \in Pairs : Cancellations(rerr[k]) = {}
    /\ Cancellations(serr) = {}

\* The OnMsg calls of pair k that have returned.
Returned(k) == IF dpc[k] = "onmsg" THEN Front(onMsg[k]) ELSE onMsg[k]

\* The errors handle reports for a sequence of payloads.
HandlerErrors(seq) ==
    LET bad == SelectSeq(seq, LAMBDA p : OnMsg(p) # "nil")
    IN  [i \in 1..Len(bad) |->
            Errorf("listening on channel=%s msg=%s error=%s",
                   << Channel, bad[i], OnMsg(bad[i]) >>)]

\* C7: the errors a dispatch loop passed to OnError are, in order, one for
\* each returned OnMsg call that failed, made of the channel, the payload
\* and the handler's error; and a pair whose context is not done keeps its
\* loop at the select or in OnMsg, its receiver running and its connection
\* open, whatever the handler returned.
C7_HandlerErrorReported ==
    \A k \in Pairs :
        /\ derr[k] = HandlerErrors(Returned(k))
        /\ (rpc[k] # "none" /\ ~CtxDone(k)) =>
               /\ dpc[k] \in {"select", "onmsg"}
               /\ rpc[k] \in {"wait", "handoff"}
               /\ conn[k] = "open"

\* C7 witness: on a live subscription OnMsg failed for a payload, the error
\* was reported, and the next payload was passed to OnMsg.
C7_Witness ==
    \E k \in Pairs :
        /\ ~CtxDone(k)
        /\ Len(onMsg[k]) = 2 /\ OnMsg(onMsg[k][1]) # "nil"
        /\ Len(derr[k]) >= 1

NothingStarted ==
    /\ npairs = 0 /\ spc = "none"
    /\ \A k \in Pairs :
           /\ rpc[k] = "none" /\ dpc[k] = "none" /\ conn[k] = "none"
           /\ onMsg[k] = << >> /\ onLoss[k] = 0
           /\ rerr[k] = << >> /\ derr[k] = << >>
    /\ onRec = 0 /\ serr = << >>

\* C8: while Listen runs or after it returned an error nothing is started
\* and no callback was invoked; Listen returns nil exactly when the first
\* pair and the supervisor are started; the returned value never changes,
\* and the failures after the return are in the callbacks' histories: a
\* receiver past its error has called OnConnectionLoss and OnError once,
\* and every failed attempt of the supervisor is in its OnError history.
C8_ListenResult ==
    /\ [](ret # "nil" => NothingStarted)
    /\ [](ret = "nil" => lpc = "returned" /\ npairs >= 1 /\ spc # "none")
    /\ [](lpc = "returned" <=> ret # "pending")
    /\ [][lpc = "returned" => ret' = ret]_vars
    /\ [](\A k \in Pairs :
              rpc[k] \in {"report", "closing"} =>
                  onLoss[k] = 1 /\ Len(rerr[k]) = 1)
    /\ [](Len(serr) >= fails)

\* C8 witness: Listen returned nil, then a connection failed and an attempt
\* to reconnect failed, both seen through the callbacks.
C8_Witness ==
    /\ ret = "nil"
    /\ \E k \in Pairs : failed[k] /\ onLoss[k] = 1
    /\ Len(serr) = 1

\* C9 as stated: at most one connection of the listener is open.  The code
\* does not keep it: the receiver closes its connection after its report,
\* so the supervisor can have the next subscription open before.
C9_SingleOpenConnection == Cardinality({k \in Pairs : conn[k] = "open"}) <= 1

\* C9: at most one connection of the listener is open and alive, at most one
\* receiver is using a connection that is alive, and a connection still open
\* when a later pair exists has failed and belongs to a receiver that has
\* made its report and has only conn.Close left to run.
C9_SingleLiveSubscription ==
    /\ Cardinality({k \in Pairs : conn[k] = "open" /\ ~failed[k]}) <= 1
    /\ Cardinality({k \in Pairs : rpc[k] \in {"wait", "handoff"}
                                      /\ ~failed[k]}) <= 1
    /\ \A k \in Pairs :
           (conn[k] = "open" /\ k < npairs) =>
               failed[k] /\ rpc[k] = "closing"

\* C9 witness: the new subscription is open and its receiver waits while the
\* failed connection of the previous receiver is not closed yet.
C9_Witness ==
    \E k \in Pairs \ {1} :
        /\ conn[k] = "open" /\ ~failed[k] /\ rpc[k] = "wait"
        /\ conn[k - 1] = "open" /\ failed[k - 1] /\ rpc[k - 1] = "closing"

\* C10: a pair has passed a payload to OnMsg at most as often as its
\* receiver obtained it from WaitForNotification.
C10_AtMostOnce ==
    \A k \in Pairs, p \in Payloads :
        Count(onMsg[k], p) <= Count(received[k], p)

\* C10 witness: a receiver has ended with a payload it obtained and that was
\* never passed to OnMsg.
C10_Witness ==
    \E k \in Pairs, p \in Payloads :
        /\ rpc[k] = "done" /\ dpc[k] = "done"
        /\ Count(onMsg[k], p) < Count(received[k], p)

\* Position of the first p in seq, 0 when there is none.
FirstIdx(seq, p) ==
    IF \E i \in 1..Len(seq) : seq[i] = p
    THEN CHOOSE i \in 1..Len(seq) :
             seq[i] = p /\ \A j \in 1..(i - 1) : seq[j] # p
    ELSE 0

\* C11: for any DebounceInterval, two different payloads of one subscription
\* that were both passed to OnMsg were passed in the order in which the
\* receiver first obtained them.  The code does not keep it with debouncing:
\* the callbacks of two timers are goroutines of their own and reach the
\* send on runPending in any order.
C11_DeliveryInReceiveOrder ==
    \A k \in Pairs, a \in Payloads, b \in Payloads :
        (/\ a # b
         /\ FirstIdx(onMsg[k], a) > 0 /\ FirstIdx(onMsg[k], b) > 0
         /\ FirstIdx(received[k], a) < FirstIdx(received[k], b))
            => FirstIdx(onMsg[k], a) < FirstIdx(onMsg[k], b)

\* C12: with DebounceInterval > 0, a payload p the dispatch loop takes from
\* the receiver when the timer of the previous occurrence of p has fired (no
\* timer of p is scheduled any more) opens a window of its own.  The code
\* does not keep it: the pending entry goes when the loop takes the payload
\* from runPending, not when the timer fires, and an occurrence taken from
\* receive between the two is dropped.
C12_SeparateAfterTimerFired ==
    [][\A k \in Pairs, p \in Payloads :
          (/\ interval > 0
           /\ rpc[k] = "handoff" /\ held[k] = p /\ rpc'[k] = "wait"
           /\ sched[k][p] = 0)
              => opened'[k][p] = opened[k][p] + 1]_vars

\* C13 as stated: when InTransaction has returned, a failed Begin gave its
\* error and nothing else was called; after fn returned nil Commit was called
\* once, Rollback never, and err is Commit's result; after fn returned an
\* error Rollback was called once, Commit never, and err is fn's error.  The
\* code does not keep the last: goto end clears panicked, the deferred
\* function does nothing and the transaction stays open.
C13_CommitXorRollback ==
    tpc = "returned" =>
        CASE fnRes = "none" ->
                 err = "begin error" /\ tcalls = << "Begin" >>
          [] fnRes = "nil" ->
                 /\ tcalls = << "Begin", "fn", "Commit" >>
                 /\ err \in {"nil", "commit error"}
                 /\ (err = "nil") = (txState = "committed")
          [] fnRes = "error" ->
                 /\ tcalls = << "Begin", "fn", "Rollback" >>
                 /\ err = "fn error"
          [] OTHER -> FALSE

\* C14: when a panic of fn reaches the caller of InTransaction, Rollback has
\* been called, after fn and as the last call, Commit has not, and the
\* transaction is closed: a Rollback by the caller gets ErrTxClosed.
C14_PanicRollsBack ==
    tpc = "panicking" =>
        /\ fnRes = "panic"
        /\ tcalls = << "Begin", "fn", "Rollback" >>
        /\ txState = "rolled back"
        /\ CallerRollback = "ErrTxClosed"

\* C14 witness: fn panicked and the panic has reached the caller.
C14_Witness == tpc = "panicking" /\ fnRes = "panic"

\* The result of BuildInsert(o) with nothing cached.
Uncached(o) == Build(o, FALSE, << >>)
\* The columns of an argument list, in order.
Columns(a) == [i \in 1..Len(a) |-> a[i].col]

\* C15: every text in insertCache is the text built uncached for its key,
\* whatever the values in Data; a call that has returned, cached or not and
\* whatever the other caller did meanwhile, has the text and the arguments
\* of an uncached build of its own options; and two calls with the same key
\* have the same text and the same columns in the same order.
C15_CachedEqualsUncached ==
    /\ \A k \in DOMAIN insertCache, v \in Values :
           insertCache[k] =
               Uncached([Table |-> k.table, Prefix |-> k.prefix,
                         Suffix |-> k.suffix, Data |-> k.typ, val |-> v]).sql
    /\ \A c \in Callers :
           ipc[c] = "returned" =>
               /\ sql[c] = Uncached(iopts[c]).sql
               /\ iargs[c] = Uncached(iopts[c]).args
    /\ \A c \in Callers, d \in Callers :
           (/\ ipc[c] = "returned" /\ ipc[d] = "returned"
            /\ InsertKey(iopts[c]) = InsertKey(iopts[d]))
               => /\ sql[c] = sql[d]
                  /\ Len(iargs[c]) = Len(iargs[d])
                  /\ Columns(iargs[c]) = Columns(iargs[d])

\* C15 witness: two calls with the same key and different values have
\* returned, one from the cache and one that built the text, for a struct
\* with embedded structs, a duplicate column and a prefix and a suffix.
C15_Witness ==
    \E c \in Callers, d \in Callers :
        /\ ipc[c] = "returned" /\ ipc[d] = "returned"
        /\ cached[c] /\ ~cached[d]
        /\ InsertKey(iopts[c]) = InsertKey(iopts[d])
        /\ iopts[c].val # iopts[d].val
        /\ iopts[c].Data = TEmbedded
        /\ iopts[c].Prefix # "" /\ iopts[c].Suffix # ""

\* The pairs the supervisor spawned: all but the first, which Listen spawned.
SpawnedBySupervisor == IF npairs = 0 THEN 0 ELSE npairs - 1

\* C16: OnReconnect has been called once for every pair the supervisor
\* spawned, but for the one whose call is just due; a step that calls it
\* calls it once and is the supervisor's step after a successful LISTEN; the
\* pairs spawned are the pairs 1..npairs, each a receiver and a dispatch loop
\* on a connection of its own; and no failed attempt and no step of Listen
\* changes the count.
C16_OnReconnectPerSuccess ==
    /\ [](onRec = SpawnedBySupervisor - (IF spc = "spawned" THEN 1 ELSE 0))
    /\ [](\A k \in Pairs :
              /\ (k <= npairs) = (rpc[k] # "none")
              /\ (rpc[k] = "none") = (dpc[k] = "none")
              /\ (rpc[k] = "none") = (conn[k] = "none"))
    /\ [][onRec' # onRec =>
              /\ onRec' = onRec + 1
              /\ spc = "spawned" /\ npairs' = npairs /\ fails' = fails]_vars
    /\ [][(fails' # fails \/ lpc' # lpc) => onRec' = onRec]_vars

\* C16 witness: an attempt of the supervisor failed, a later one succeeded,
\* and OnReconnect has been called once, with two pairs spawned in all.
C16_Witness ==
    /\ fails >= 1 /\ npairs = 2 /\ onRec = 1
    /\ rpc[2] = "wait" /\ dpc[2] = "select"

\* The positions of a receiver after WaitForNotification failed.
AfterError == {"report", "closing", "done"}

\* C17, under FairSpec: a receiver calls OnConnectionLoss at most once, has
\* called it and still has its connection open while it reports, and has
\* closed the connection when it is done; past the error it never waits for
\* a notification again, and past its report it never reports again; the
\* supervisor leaves its outer select for a connect exactly in the step in
\* which a receiver's report is taken; pairs are spawned only by Listen and
\* by the supervisor; and a receiver that has a report to make ends, with
\* the report taken unless the caller cancels.
C17_ReceiverReportsOnce ==
    /\ [](\A k \in Pairs :
              /\ onLoss[k] <= 1
              /\ rpc[k] \in {"report", "closing"} =>
                     onLoss[k] = 1 /\ conn[k] = "open"
              /\ rpc[k] = "done" => conn[k] = "closed")
    /\ [][\A k \in Pairs :
              /\ rpc[k] \in AfterError => rpc'[k] \in AfterError
              /\ rpc[k] \in {"closing", "done"} => rpc'[k] \in {"closing", "done"}
              /\ rpc[k] = "done" => rpc'[k] = "done"]_vars
    /\ [][(spc = "idle" /\ spc' = "connect")
              <=> (\E k \in Pairs : rpc[k] = "report" /\ rpc'[k] = "closing")]_vars
    /\ [][npairs' # npairs => (lpc = "subscribe" \/ spc = "subscribe")]_vars
    /\ \A k \in Pairs :
           (rpc[k] = "report") ~> (rpc[k] = "done" /\ (cancelled \/ k < npairs \/ spc # "idle"))

\* C17 witness: never cancelled, a receiver whose connection failed has
\* called OnConnectionLoss once, reported, closed its connection and ended,
\* and the supervisor has spawned the next pair.
C17_Witness ==
    /\ ~cancelled
    /\ failed[1] /\ onLoss[1] = 1 /\ rpc[1] = "done" /\ conn[1] = "closed"
    /\ npairs = 2

\* The positions of the supervisor inside its retry loop.
RetryLoop == {"connect", "subscribe", "spawned", "backoff"}
\* A step in which an attempt of the supervisor fails.
AttemptFails ==
    /\ spc \in {"connect", "subscribe"}
    /\ spc' \in {"backoff", "done"}

\* C18, under FairSpec: a step in which an attempt fails passes one error
\* "reconnecting channel=%s error=%s" to OnError and puts the supervisor in
\* the backoff wait, or ends it if opts.Context is done; an attempt starts
\* only from the outer select or from the backoff wait; the supervisor
\* leaves the retry loop only after a successful LISTEN or with
\* opts.Context done, so it has never ended unless the caller cancelled;
\* and the backoff wait leads to the next attempt unless the caller cancels.
C18_RetryUntilSuccessOrCancel ==
    /\ [][AttemptFails =>
              /\ Len(serr') = Len(serr) + 1
              /\ serr'[Len(serr')][2] = "reconnecting channel=%s error=%s"
              /\ serr'[Len(serr')][3][1] = Channel
              /\ spc' = IF cancelled THEN "done" ELSE "backoff"
              /\ npairs' = npairs /\ onRec' = onRec]_vars
    /\ [][(fails' # fails \/ serr' # serr) => AttemptFails]_vars
    /\ [][(spc' = "connect" /\ spc # "connect") => spc \in {"idle", "backoff"}]_vars
    /\ [][(spc \in RetryLoop /\ spc' \notin RetryLoop) =>
              \/ spc = "spawned"
              \/ cancelled' /\ spc' = "done"]_vars
    /\ [](spc = "done" => cancelled)
    /\ [](Len(serr) >= fails)
    /\ (spc = "backoff") ~> (cancelled \/ spc = "connect")

\* C18 witness: an attempt failed, its error was passed to OnError, the
\* backoff wait is over and the next attempt has started, without a cancel.
C18_Witness ==
    /\ ~cancelled
    /\ fails >= 1 /\ Len(serr) = fails
    /\ spc = "connect"

\* No goroutine of the listener is left: receivers, dispatch loops and the
\* supervisor have returned or were never started, no timer callback is
\* blocked on runPending, and every connection of a receiver is closed.
AllStopped ==
    /\ spc \in {"none", "done"}
    /\ \A k \in Pairs :
           /\ rpc[k] \in {"none", "done"}
           /\ dpc[k] \in {"none", "done"}
           /\ conn[k] \in {"none", "closed"}
           /\ \A p \in Payloads : firedT[k][p] = 0

\* C19, under FairSpec (goroutines are scheduled, callbacks and calls
\* return): once opts.Context is cancelled all goroutines of the listener
\* end and the receivers' connections are closed, wherever each goroutine
\* was; and once that is so nothing starts again.
C19_CancelStopsAll ==
    /\ cancelled ~> AllStopped
    /\ [][(cancelled /\ AllStopped) => AllStopped']_vars

\* C19 witness: the cancellation found two subscriptions' goroutines alive
\* and all of them have ended.
C19_Witness ==
    /\ cancelled /\ AllStopped
    /\ npairs = 2 /\ spc = "done"
    /\ \E k \in Pairs : onLoss[k] = 1 /\ ~failed[k]

\* The dispatch loop of pair k is running: it is at its select or in OnMsg,
\* and its context is not done.
Running(k) == dpc[k] \in {"select", "onmsg"} /\ ~CtxDone(k)

\* The timers of payload p in pair k that are scheduled, or have fired and
\* wait for the loop to take their payload from runPending.
Outstanding(k, p) == sched[k][p] + firedT[k][p]

\* The step is the loop of pair k taking p from runPending: the firing of
\* the timer of p is consumed, the pending entry of p is deleted and OnMsg(p)
\* is invoked, and no payload is taken from the receiver.
ConsumesFiring(k, p) ==
    /\ firedT[k][p] = 1 /\ firedT'[k][p] = 0
    /\ p \in pending[k] /\ pending'[k] = pending[k] \ {p}
    /\ onMsg'[k] = Append(onMsg[k], p)
    /\ held' = held /\ received' = received /\ opened' = opened

\* C20: with DebounceInterval > 0, while the dispatch loop of a pair runs,
\* every payload has at most one outstanding timer and is in pending exactly
\* when it has one; every OnMsg invocation is made by a step in which the
\* loop consumes the firing of that payload's timer, never by a receipt; a
\* pending entry is removed only by such a step, so that every entry that was
\* created is either still pending or was removed once.
C20_DebounceRegister ==
    /\ [](\A k \in Pairs, p \in Payloads :
             (interval > 0 /\ Running(k)) =>
                 /\ Outstanding(k, p) <= 1
                 /\ (p \in pending[k]) <=> (Outstanding(k, p) = 1))
    /\ [](\A k \in Pairs, p \in Payloads :
             interval > 0 =>
                 opened[k][p] - Count(onMsg[k], p) = InWindow(k, p))
    /\ [][\A k \in Pairs :
             (interval > 0 /\ onMsg'[k] # onMsg[k]) =>
                 \E p \in Payloads : ConsumesFiring(k, p)]_vars
    /\ [][\A k \in Pairs, p \in Payloads :
             (interval > 0 /\ p \in pending[k] /\ p \notin pending'[k]) =>
                 ConsumesFiring(k, p)]_vars

\* C20 witness: the loop runs OnMsg(p) after consuming the firing of the
\* timer of p, whose entry is removed, while the timer of another payload q
\* has fired and its entry is still pending.
C20_Witness ==
    \E k \in Pairs, p \in Payloads, q \in Payloads :
        /\ interval > 0 /\ Running(k) /\ p # q
        /\ dpc[k] = "onmsg" /\ cur[k] = p
        /\ p \notin pending[k] /\ Count(onMsg[k], p) = 1
        /\ q \in pending[k] /\ firedT[k][q] = 1

\* Field f of a struct gives a column: it is not tagged db:"-" and is not an
\* embedded struct.
IsColumn(f) == ~f.anonymous /\ f.tag[1] # "-"
\* Field f is an embedded struct that is scanned.
IsEmbedded(f) == f.anonymous /\ f.tag[1] # "-"
\* The column name of field f: its tag, or its name without one.
ColumnName(f) == IF f.tag[1] = "" THEN f.name ELSE f.tag[1]
\* The tag of field f has the option "string".
ConvertToString(f) == \E j \in 2..Len(f.tag) : f.tag[j] = "string"

\* The fields of a struct that give columns, in declaration order, followed
\* by those of its embedded structs, each flattened the same way, in
\* declaration order.
RECURSIVE Flatten(_)
RECURSIVE FlattenAll(_, _)
FlattenAll(emb, i) ==
    IF i > Len(emb) THEN << >>
    ELSE Flatten(emb[i].typ) \o FlattenAll(emb, i + 1)
Flatten(fields) ==
    SelectSeq(fields, IsColumn) \o FlattenAll(SelectSeq(fields, IsEmbedded), 1)

\* The fields of fs without those whose column name an earlier one has.
RECURSIVE KeepFirst(_, _)
KeepFirst(fs, seen) ==
    IF fs = << >> THEN << >>
    ELSE IF ColumnName(Head(fs)) \in seen THEN KeepFirst(Tail(fs), seen)
    ELSE << Head(fs) >> \o KeepFirst(Tail(fs), seen \cup {ColumnName(Head(fs))})

\* The fields BuildInsert is to list for a struct type.
Listed(typ) == KeepFirst(Flatten(typ), {})

\* The position of the first piece x of the text at or after position i.
RECURSIVE Find(_, _, _)
Find(text, x, i) == IF text[i] = x THEN i ELSE Find(text, x, i + 1)

\* The column names between INSERT INTO "table" ( and ) VALUES ( of a
\* statement, without the commas and the quotes.
IsName(x) == x \notin {",", "\""}
TextColumns(text) ==
    SelectSeq(SubSeq(text, Find(text, "\" (", 1) + 1,
                     Find(text, ") VALUES (", 1) - 1), IsName)

\* The numbers of the placeholders $n of a statement from position i on, up
\* to the closing parenthesis.
RECURSIVE PlaceholdersFrom(_, _)
PlaceholdersFrom(text, i) ==
    IF text[i] = ")" THEN << >>
    ELSE IF text[i] = "," THEN PlaceholdersFrom(text, i + 1)
    ELSE << text[i + 1] >> \o PlaceholdersFrom(text, i + 2)
TextPlaceholders(text) ==
    PlaceholdersFrom(text, Find(text, ") VALUES (", 1) + 1)

\* C21: a call of BuildInsert that has returned, cached or not, has a
\* statement whose column list is, in this order, the columns of the struct's
\* own fields in declaration order followed by those of its embedded structs
\* depth-first, without the fields tagged db:"-" and without a field whose
\* column name an earlier field has; its placeholders are $1..$n and its
\* arguments are n, the i-th being the value of the field of the i-th column.
C21_ColumnsPlaceholdersArgs ==
    \A c \in Callers :
        ipc[c] = "returned" =>
            LET L == Listed(iopts[c].Data)
                n == Len(L)
            IN  /\ TextColumns(sql[c]) = [i \in 1..n |-> ColumnName(L[i])]
                /\ TextPlaceholders(sql[c]) = [i \in 1..n |-> i]
                /\ Len(iargs[c]) = n
                /\ \A i \in 1..n :
                       /\ iargs[c][i].col = ColumnName(L[i])
                       /\ iargs[c][i].v =
                              FieldValue(L[i], iopts[c].val, ConvertToString(L[i]))

\* C21 witness: calls have returned for the struct with nested embedded
\* structs, duplicate column names and a skipped field, one that built the
\* statement and one that took it from the cache, and for the struct whose
\* own field overrides that of an embedded struct declared before it.
C21_Witness ==
    \E c \in Callers, d \in Callers :
        /\ ipc[c] = "returned" /\ ipc[d] = "returned"
        /\ iopts[c].Data = TNested /\ Len(iargs[c]) = 4
        /\ Columns(iargs[c]) = << "F1", "g", "d", "O4" >>
        /\ iopts[d].Data \in {TNested, TEmbedded}
        /\ cached[d] \/ iopts[d].Data = TEmbedded

\* C22: under FairSpec, with DebounceInterval > 0, a payload with a pending
\* entry in pair k leads to one more OnMsg invocation of that payload in pair
\* k, unless the caller cancels.
C22_WindowDelivered ==
    \A k \in Pairs, p \in Payloads, c \in 0..MaxNotify :
        (interval > 0 /\ p \in pending[k] /\ Count(onMsg[k], p) = c)
            ~> (cancelled \/ Count(onMsg[k], p) > c)

\* C23: no connection whose LISTEN statement failed is left open once Listen
\* has returned the error or the supervisor has left the failed attempt, and
\* the connection of a receiver that has returned is closed.
C23_ConnectionsClosed ==
    /\ orphans = 0
    /\ \A k \in Pairs : rpc[k] = "done" => conn[k] = "closed"

\* The OnConnectionLoss calls of the receivers of the pairs 1..k.
RECURSIVE LossCalls(_)
LossCalls(k) == IF k = 0 THEN 0 ELSE onLoss[k] + LossCalls(k - 1)

\* C24: unless the caller has cancelled, when a payload of the subscription
\* of pair k > 1 has been passed to OnMsg or its receiver has called
\* OnConnectionLoss, OnReconnect has been called for that subscription; and
\* the OnConnectionLoss calls are as many as the OnReconnect calls, or one
\* more.
C24_ReconnectBeforeNewCallbacks ==
    ~cancelled =>
        /\ \A k \in Pairs \ {1} :
               (Len(onMsg[k]) > 0 \/ onLoss[k] > 0) => onRec >= k - 1
        /\ LossCalls(MaxConnLoss + 1) - onRec \in {0, 1}

====
